---- MODULE Spec2Model ----
(***************************************************************************)
(* Model of the CoCa compound registry (database.py) and of the dilution  *)
(* arithmetic (Dilution_Calc_streamlit.py).                                *)
(*                                                                         *)
(* The persisted state is the SQLite file compounds.db: the table          *)
(* compounds (its columns and rows), the table compounds_old left by the   *)
(* legacy migration, and the AUTOINCREMENT counter of compounds.           *)
(* Every database.py function is one action; what the call returned (or    *)
(* raised) is recorded in the variable last.                               *)
(***************************************************************************)
EXTENDS Integers, Sequences, FiniteSets, TLC

VARIABLES
    columns,      \* column names of table compounds ({} = no such table)
    rows,         \* rows of table compounds, each a function over columns
    old_columns,  \* column names of table compounds_old ({} = no such table)
    old_rows,     \* rows of table compounds_old
    seq,          \* sqlite_sequence entry of compounds (0 = no entry)
    last,         \* the last call: function, arguments, and what it returned or raised
    origin,       \* id -> standard_concentration of the rows that were in compounds
                  \* before the first call and have not been written or deleted since
    inits,        \* number of init_db calls that returned normally (saturating)
    assigned,     \* the ids the store has given to a row of compounds so far
    calc          \* the calculator: inputs and results of the two pure functions

vars == <<columns, rows, old_columns, old_rows, seq, last, origin, inits, assigned, calc>>
dbvars == <<columns, rows, old_columns, old_rows, seq, last, origin, inits, assigned>>

----------------------------------------------------------------------------
(* Bounds of the model *)

MaxId == 3           \* add_compound is not called once the id counter reached MaxId
MaxInits == 2        \* the count of successful init_db calls saturates here
MaxNum == 3          \* calculator inputs have numerators 0..MaxNum
MaxBatch == 2        \* records in one upsert_many batch

----------------------------------------------------------------------------
(* Values *)

\* SQL NULL / Python None for the optional REAL columns; a present value x is <<x>>
NULL == << >>
Some(x) == <<x>>

ShortNames == {"a", "b"}

\* the argument tuples (longname, molecular_weight, standard_concentration,
\* standard_volume) the callers pass; they differ in every field
Payloads ==
    { [longname |-> "L", molecular_weight |-> 1,
       standard_concentration |-> NULL, standard_volume |-> NULL],
      [longname |-> "M", molecular_weight |-> 2,
       standard_concentration |-> Some(5), standard_volume |-> Some(1)] }

InitIds == {1, 2}

Max(S) == IF S = {} THEN 0 ELSE CHOOSE m \in S : \A x \in S : x <= m

----------------------------------------------------------------------------
(* Schemas *)

Marker == "conc_in_mM_migrated"

LegacyColumns ==
    {"id", "name", "molecular_weight", "standard_concentration", "standard_volume"}

NewColumns ==
    {"id", "shortname", "longname", "molecular_weight",
     "standard_concentration", "standard_volume"}

\* the database file as one value, for the statements of init_db
Db == [columns |-> columns, rows |-> rows, old_columns |-> old_columns,
       old_rows |-> old_rows, seq |-> seq]

\* the row an INSERT into the new-schema table stores; a table that has the
\* marker column gives it its DEFAULT 1
NewRow(id, shortname, p, cols) ==
    [c \in cols |->
        CASE c = "id" -> id
          [] c = "shortname" -> shortname
          [] c = "longname" -> p.longname
          [] c = "molecular_weight" -> p.molecular_weight
          [] c = "standard_concentration" -> p.standard_concentration
          [] c = "standard_volume" -> p.standard_volume
          [] c = Marker -> 1]

----------------------------------------------------------------------------
(* init_db, statement by statement *)

\* ALTER TABLE compounds RENAME TO compounds_old
RenameToOld(db) ==
    [db EXCEPT !.old_columns = db.columns, !.old_rows = db.rows,
               !.columns = {}, !.rows = {}, !.seq = 0]

\* CREATE TABLE compounds (...)
CreateTable(db) ==
    [db EXCEPT !.columns = NewColumns, !.rows = {}, !.seq = 0]

\* a copy that fills only shortname from the old name
CopiedRowShortnameOnly(r) ==
    [id |-> r.id, shortname |-> r.name, longname |-> "",
     molecular_weight |-> r.molecular_weight,
     standard_concentration |-> r.standard_concentration,
     standard_volume |-> r.standard_volume]

\* SELECT id, name, name, molecular_weight, standard_concentration, standard_volume
CopiedRow(r) ==
    [id |-> r.id, shortname |-> r.name, longname |-> r.name,
     molecular_weight |-> r.molecular_weight,
     standard_concentration |-> r.standard_concentration,
     standard_volume |-> r.standard_volume]

\* the INSERT ... SELECT violates UNIQUE(shortname) when two legacy rows share a name
CopyFails(db) ==
    \E r, q \in db.old_rows : r # q /\ r.name = q.name

\* INSERT INTO compounds (...) SELECT ... FROM compounds_old; explicit ids move
\* the AUTOINCREMENT counter to the largest id stored
CopyRows(db) ==
    [db EXCEPT !.rows = {CopiedRow(r) : r \in db.old_rows},
               !.seq = Max({r.id : r \in db.old_rows})]

\* DROP TABLE compounds_old
DropOld(db) ==
    [db EXCEPT !.old_columns = {}, !.old_rows = {}]

\* a CREATE that replaces the table it finds
CreateAlways(db) ==
    CreateTable(db)

\* CREATE TABLE IF NOT EXISTS compounds (...)
CreateIfNotExists(db) ==
    IF db.columns = {} THEN CreateTable(db) ELSE db

\* standard_concentration * 1000 WHERE standard_concentration IS NOT NULL
TimesThousand(c) ==
    IF c = NULL THEN NULL ELSE Some(c[1] * 1000)

\* UPDATE compounds SET standard_concentration = standard_concentration * 1000 ...
ConvertRow(r) ==
    [r EXCEPT !.standard_concentration = TimesThousand(@)]

\* ALTER TABLE compounds ADD COLUMN conc_in_mM_migrated INTEGER DEFAULT 1
AddMarkerColumn(r) ==
    r @@ (Marker :> 1)

\* a unit migration that does not look for the marker column
MigrateUnitsUnguarded(db) ==
    [db EXCEPT !.rows = {AddMarkerColumn(ConvertRow(r)) : r \in db.rows},
               !.columns = @ \cup {Marker}]

\* the unit migration: runs when the marker column is absent
MigrateUnits(db) ==
    IF Marker \in db.columns
    THEN db
    ELSE [db EXCEPT !.rows = {AddMarkerColumn(ConvertRow(r)) : r \in db.rows},
                    !.columns = @ \cup {Marker}]

\* where the process can be stopped with something already committed: the DDL
\* statements run outside a transaction and are durable at once, everything from
\* the INSERT on is one transaction that commits at conn.commit()
InterruptPoints(db) ==
    IF "name" \in db.columns
    THEN {"none", "after_rename", "after_create"}
    ELSE {"none", "after_create"}

\* the whole of init_db: the database it leaves and how the call ended
\* ("None" = returned, an exception name = raised, "killed" = process stopped)
InitDbResult(db, interrupt) ==
    IF "name" \in db.columns
    THEN IF db.old_columns # {}
         THEN [db |-> db, err |-> "OperationalError"]
         ELSE LET d1 == RenameToOld(db)
                  d2 == CreateTable(d1)
              IN  IF interrupt = "after_rename" THEN [db |-> d1, err |-> "killed"]
                  ELSE IF interrupt = "after_create" THEN [db |-> d2, err |-> "killed"]
                  ELSE IF CopyFails(d2) THEN [db |-> d2, err |-> "IntegrityError"]
                  ELSE [db |-> MigrateUnits(DropOld(CopyRows(d2))), err |-> "None"]
    ELSE LET d1 == CreateIfNotExists(db)
         IN  IF interrupt = "after_create" THEN [db |-> d1, err |-> "killed"]
             ELSE [db |-> MigrateUnits(d1), err |-> "None"]

\* origin keeps only the rows still in compounds under their id
Restrict(f, S) == [x \in (DOMAIN f) \cap S |-> f[x]]

Ids(rs) == {r.id : r \in rs}

InitDb(interrupt) ==
    /\ interrupt \in InterruptPoints(Db)
    /\ LET res == InitDbResult(Db, interrupt)
       IN  /\ columns' = res.db.columns
           /\ rows' = res.db.rows
           /\ old_columns' = res.db.old_columns
           /\ old_rows' = res.db.old_rows
           /\ seq' = res.db.seq
           /\ last' = [op |-> "init_db", legacy |-> ("name" \in columns),
                       err |-> res.err,
                       raised |-> (res.err \notin {"None", "killed"})]
           /\ origin' = Restrict(origin, Ids(res.db.rows))
           /\ inits' = IF res.err = "None" /\ inits < MaxInits THEN inits + 1 ELSE inits
    /\ UNCHANGED <<assigned, calc>>

----------------------------------------------------------------------------
(* add_compound, update_compound, delete_compound *)

\* a table without the UNIQUE constraint on shortname
InsertNeverConflicts(rs, shortname) ==
    FALSE

\* UNIQUE(shortname) on INSERT: some row already has the shortname
InsertConflict(rs, shortname) ==
    \E r \in rs : r.shortname = shortname

\* an UPDATE that is not checked against the other rows
UpdateNeverConflicts(rs, id, shortname) ==
    FALSE

\* UNIQUE(shortname) on UPDATE: a row other than the updated one has the shortname
UpdateConflict(rs, id, shortname) ==
    \E r \in rs : r.id # id /\ r.shortname = shortname

\* a DELETE whose WHERE clause compares with <= instead of =
RemainingAbove(rs, id) ==
    {r \in rs : r.id > id}

\* what DELETE ... WHERE id = ? leaves
Remaining(rs, id) ==
    {r \in rs : r.id # id}

\* AUTOINCREMENT: one more than the largest id the table ever held
NextId == Max(Ids(rows) \cup {seq}) + 1

AddCompound(shortname, p) ==
    /\ seq < MaxId
    /\ IF "shortname" \notin columns
       THEN \* no such table, or the legacy table: sqlite3.OperationalError
            /\ last' = [op |-> "add_compound", shortname |-> shortname, p |-> p,
                        val |-> NULL, err |-> "OperationalError", raised |-> FALSE]
            /\ UNCHANGED <<rows, seq, origin, assigned>>
       ELSE IF InsertConflict(rows, shortname)
       THEN \* UNIQUE constraint failed: compounds.shortname
            /\ last' = [op |-> "add_compound", shortname |-> shortname, p |-> p,
                        val |-> NULL, err |-> "IntegrityError", raised |-> FALSE]
            /\ UNCHANGED <<rows, seq, origin, assigned>>
       ELSE /\ rows' = rows \cup {NewRow(NextId, shortname, p, columns)}
            /\ seq' = NextId
            /\ last' = [op |-> "add_compound", shortname |-> shortname, p |-> p,
                        val |-> Some(NextId), err |-> "None", raised |-> FALSE]
            /\ origin' = Restrict(origin, Ids(rows))
            /\ assigned' = assigned \cup {NextId}
    /\ UNCHANGED <<columns, old_columns, old_rows, inits, calc>>

\* an UPDATE that leaves standard_volume out of its SET list
UpdatedRowKeepsVolume(r, shortname, p) ==
    [r EXCEPT !.shortname = shortname,
              !.longname = p.longname,
              !.molecular_weight = p.molecular_weight,
              !.standard_concentration = p.standard_concentration]

\* UPDATE compounds SET shortname = ?, ... WHERE id = ?
UpdatedRow(r, shortname, p) ==
    [r EXCEPT !.shortname = shortname,
              !.longname = p.longname,
              !.molecular_weight = p.molecular_weight,
              !.standard_concentration = p.standard_concentration,
              !.standard_volume = p.standard_volume]

UpdateCompound(id, shortname, p) ==
    /\ IF "shortname" \notin columns
       THEN /\ last' = [op |-> "update_compound", id |-> id, shortname |-> shortname,
                        p |-> p, val |-> 0, err |-> "OperationalError", raised |-> FALSE]
            /\ UNCHANGED <<rows, origin>>
       ELSE IF id \notin Ids(rows)
       THEN /\ last' = [op |-> "update_compound", id |-> id, shortname |-> shortname,
                        p |-> p, val |-> 0, err |-> "None", raised |-> FALSE]
            /\ UNCHANGED <<rows, origin>>
       ELSE IF UpdateConflict(rows, id, shortname)
       THEN /\ last' = [op |-> "update_compound", id |-> id, shortname |-> shortname,
                        p |-> p, val |-> 0, err |-> "IntegrityError", raised |-> FALSE]
            /\ UNCHANGED <<rows, origin>>
       ELSE /\ rows' = {IF r.id = id THEN UpdatedRow(r, shortname, p) ELSE r : r \in rows}
            /\ last' = [op |-> "update_compound", id |-> id, shortname |-> shortname,
                        p |-> p, val |-> 1, err |-> "None", raised |-> FALSE]
            /\ origin' = Restrict(origin, Ids(rows) \ {id})
    /\ UNCHANGED <<columns, old_columns, old_rows, seq, inits, assigned, calc>>

\* DELETE FROM compounds WHERE id = ?
DeleteCompound(id) ==
    /\ IF columns = {}
       THEN /\ last' = [op |-> "delete_compound", id |-> id, val |-> 0,
                        err |-> "OperationalError", raised |-> FALSE]
            /\ UNCHANGED <<rows, origin>>
       ELSE /\ rows' = Remaining(rows, id)
            /\ last' = [op |-> "delete_compound", id |-> id,
                        val |-> Cardinality({r \in rows : r.id = id}), err |-> "None", raised |-> FALSE]
            /\ origin' = Restrict(origin, Ids(rows) \ {id})
    /\ UNCHANGED <<columns, old_columns, old_rows, seq, inits, assigned, calc>>

----------------------------------------------------------------------------
(* The stores the program can find at its first start *)

LegacyRow(id, name, p) ==
    [id |-> id, name |-> name, molecular_weight |-> p.molecular_weight,
     standard_concentration |-> p.standard_concentration,
     standard_volume |-> p.standard_volume]

\* a legacy table: ids are the primary key, names are not constrained here
LegacyStores ==
    { {LegacyRow(i, n[i], q[i]) : i \in ids} :
        ids \in SUBSET InitIds, n \in [InitIds -> ShortNames], q \in [InitIds -> Payloads] }

\* a table of the new schema written before the unit migration existed:
\* shortname is UNIQUE
NewStores ==
    { rs \in { {NewRow(i, n[i], q[i], NewColumns) : i \in ids} :
                ids \in SUBSET InitIds, n \in [InitIds -> ShortNames],
                q \in [InitIds -> Payloads] } :
        \A r, s \in rs : r # s => r.shortname # s.shortname }

NoCalc == [pc |-> "off"]

Init ==
    /\ \/ columns = {} /\ rows = {} /\ seq = 0 /\ assigned = {}
       \/ /\ columns = LegacyColumns /\ rows \in LegacyStores /\ seq = Max(Ids(rows))
          /\ \E k \in Max(Ids(rows))..Max(InitIds) : assigned = 1..k
       \/ /\ columns = NewColumns /\ rows \in NewStores
          /\ seq \in Max(Ids(rows))..Max(InitIds)
          /\ assigned = 1..seq
    /\ old_columns = {}
    /\ old_rows = {}
    /\ last = [op |-> "none"]
    /\ origin = [i \in Ids(rows) |-> (CHOOSE r \in rows : r.id = i).standard_concentration]
    /\ inits = 0
    /\ calc = NoCalc

Next ==
    \/ \E i \in {"none", "after_rename", "after_create"} : InitDb(i)
    \/ \E s \in ShortNames, p \in Payloads : AddCompound(s, p)
    \/ \E id \in 1..MaxId, s \in ShortNames, p \in Payloads : UpdateCompound(id, s, p)
    \/ \E id \in 1..MaxId : DeleteCompound(id)

Spec == Init /\ [][Next]_vars

----------------------------------------------------------------------------
(* upsert_many: the bulk-import primitive of the Schema Store *)

\* the molecular-weight cell as pasted; "x" stands for any non-numeric text
MwTexts == {"1", "2", "x"}

IsNumeric(t) == t \in {"1", "2"}

\* the number a numeric cell denotes
ParseNumber(t) == CASE t = "1" -> 1 [] t = "2" -> 2

\* the records a batch is made of: (shortname, molecular_weight,
\* standard_concentration, standard_volume)
UpsertRecords ==
    { [shortname |-> "a", molecular_weight |-> "1",
       standard_concentration |-> NULL, standard_volume |-> NULL],
      [shortname |-> "a", molecular_weight |-> "2",
       standard_concentration |-> Some(5), standard_volume |-> Some(1)],
      [shortname |-> "b", molecular_weight |-> "2",
       standard_concentration |-> Some(5), standard_volume |-> NULL],
      [shortname |-> "b", molecular_weight |-> "x",
       standard_concentration |-> NULL, standard_volume |-> Some(1)] }

Batches ==
    UNION { [1..n -> UpsertRecords] : n \in 0..MaxBatch }

\* one record applied inside the batch's transaction: an existing shortname has
\* its three numeric fields overwritten, a new one is inserted; ln is the
\* longname an inserted row gets (its shortname, or empty)
UpsertOne(st, rec, ln) ==
    IF \E r \in st.rows : r.shortname = rec.shortname
    THEN [st EXCEPT !.rows =
             { IF r.shortname = rec.shortname
               THEN [r EXCEPT !.molecular_weight = ParseNumber(rec.molecular_weight),
                              !.standard_concentration = rec.standard_concentration,
                              !.standard_volume = rec.standard_volume]
               ELSE r : r \in st.rows },
             !.count = @ + 1]
    ELSE LET id == Max(Ids(st.rows) \cup {st.seq}) + 1
             p == [longname |-> IF ln THEN rec.shortname ELSE "",
                   molecular_weight |-> ParseNumber(rec.molecular_weight),
                   standard_concentration |-> rec.standard_concentration,
                   standard_volume |-> rec.standard_volume]
         IN  [st EXCEPT !.rows = @ \cup {NewRow(id, rec.shortname, p, columns)},
                        !.seq = id,
                        !.count = @ + 1]

\* the records in order; the first failing record stops the batch
RECURSIVE UpsertFold(_, _, _)
UpsertFold(st, batch, ln) ==
    IF batch = << >> THEN st
    ELSE IF ~IsNumeric(Head(batch).molecular_weight)
         THEN [st EXCEPT !.err = "ValueError"]
         ELSE UpsertFold(UpsertOne(st, Head(batch), ln), Tail(batch), ln)

\* a batch whose failure keeps what was applied before it
UpsertNoRollback(before, after) ==
    after

\* commit on success, roll back to the state before the batch on any failure
UpsertOutcome(before, after) ==
    IF after.err = "None" THEN after ELSE [before EXCEPT !.err = after.err]

UpsertMany(batch, ln) ==
    /\ seq + Len(batch) <= MaxId
    /\ IF "shortname" \notin columns
       THEN /\ last' = [op |-> "upsert_many", batch |-> batch, val |-> 0,
                        err |-> "OperationalError", raised |-> FALSE]
            /\ UNCHANGED <<rows, seq, origin, assigned>>
       ELSE LET before == [rows |-> rows, seq |-> seq, count |-> 0, err |-> "None"]
                out == UpsertOutcome(before, UpsertFold(before, batch, ln))
            IN  /\ rows' = out.rows
                /\ seq' = out.seq
                /\ last' = [op |-> "upsert_many", batch |-> batch, val |-> out.count,
                            err |-> out.err, raised |-> FALSE]
                /\ origin' = Restrict(origin,
                                 {r.id : r \in {x \in rows : x \in out.rows}})
                /\ assigned' = assigned \cup Ids(out.rows)
    /\ UNCHANGED <<columns, old_columns, old_rows, inits, calc>>

NextUpsert ==
    \/ \E i \in {"none", "after_rename", "after_create"} : InitDb(i)
    \/ \E b \in Batches, ln \in BOOLEAN : UpsertMany(b, ln)
    \/ \E id \in 1..MaxId : DeleteCompound(id)

\* the bulk import works on a store of the current schema, or on none yet
UpsertInit == Init /\ "name" \notin columns

SpecUpsert == UpsertInit /\ [][NextUpsert]_vars

----------------------------------------------------------------------------
(* The dilution calculator: calculate_mass and calculate_volume *)

\* A Python float.  scale "one": the number n / d (d > 0), taken as exact: the
\* rounding of results in the normal range is below what the tolerance of a
\* comparison sees.  scale "ulp": n times the smallest positive double,
\* 2^-1074, where every result is rounded to a whole number of such steps
\* (half to even) and anything up to half a step becomes 0.0.  scale "inf":
\* the result of an overflow.  scale "ZeroDivisionError": no value, the
\* division raised.
Frac(n, d) == [n |-> n, d |-> d, scale |-> "one"]
FromInt(i) == Frac(i, 1)
Ulps(k) == IF k = 0 THEN Frac(0, 1) ELSE [n |-> k, d |-> 1, scale |-> "ulp"]
Infinity == [n |-> 1, d |-> 1, scale |-> "inf"]
ZeroDivisionError == [n |-> 0, d |-> 1, scale |-> "ZeroDivisionError"]

Raised(a) == a.scale = "ZeroDivisionError"

\* x == 0
FIsZero(a) == a.scale \in {"one", "ulp"} /\ a.n = 0

\* round-to-nearest, ties-to-even, of n / d to a whole number
RoundHalfEven(n, d) ==
    LET q == n \div d
        r == n % d
    IN  IF 2 * r < d THEN q
        ELSE IF 2 * r > d THEN q + 1
        ELSE IF q % 2 = 0 THEN q ELSE q + 1

\* a * b
FMul(a, b) ==
    IF Raised(a) \/ Raised(b) THEN ZeroDivisionError
    ELSE IF a.scale = "inf" \/ b.scale = "inf" THEN Infinity
    ELSE IF a.scale = "one" /\ b.scale = "one" THEN Frac(a.n * b.n, a.d * b.d)
    ELSE IF a.scale = "ulp" /\ b.scale = "one" THEN Ulps(RoundHalfEven(a.n * b.n, b.d))
    ELSE IF a.scale = "one" /\ b.scale = "ulp" THEN Ulps(RoundHalfEven(b.n * a.n, a.d))
    ELSE Frac(0, 1)

\* a / b: raises when b == 0; a number of the normal range divided by a
\* subnormal one overflows
FDiv(a, b) ==
    IF Raised(a) \/ Raised(b) THEN ZeroDivisionError
    ELSE IF FIsZero(b) THEN ZeroDivisionError
    ELSE IF a.scale = "inf" THEN Infinity
    ELSE IF b.scale = "inf" THEN Frac(0, 1)
    ELSE IF a.scale = "one" /\ b.scale = "one" THEN Frac(a.n * b.d, a.d * b.n)
    ELSE IF a.scale = "ulp" /\ b.scale = "one" THEN Ulps(RoundHalfEven(a.n * b.d, b.n))
    ELSE IF a.scale = "one" /\ b.scale = "ulp"
         THEN IF a.n = 0 THEN Frac(0, 1) ELSE Infinity
    ELSE Frac(a.n, b.n)

\* equal numbers
FEq(a, b) == a.scale = b.scale /\ a.n * b.d = b.n * a.d

\* calculate_mass(molar_concentration_mM, volume_ml, molecular_weight);
\* molecular_weight is NULL (None) or Some(fraction)
calculate_mass(conc_mM, vol_ml, mw) ==
    IF mw = NULL \/ FIsZero(mw[1])
    THEN FromInt(0)
    ELSE LET molar_concentration_M == FDiv(conc_mM, FromInt(1000))
             volume_l == FDiv(vol_ml, FromInt(1000))
         IN  FMul(FMul(molar_concentration_M, volume_l), mw[1])

\* a calculate_volume that returns litres
calculate_volume_litres(mass_g, conc_mM, mw) ==
    IF mw = NULL \/ FIsZero(mw[1]) \/ FIsZero(conc_mM)
    THEN FromInt(0)
    ELSE FDiv(FDiv(mass_g, mw[1]), FDiv(conc_mM, FromInt(1000)))

\* calculate_volume(mass_g, molar_concentration_mM, molecular_weight)
calculate_volume(mass_g, conc_mM, mw) ==
    IF mw = NULL \/ FIsZero(mw[1]) \/ FIsZero(conc_mM)
    THEN FromInt(0)
    ELSE LET molar_concentration_M == FDiv(conc_mM, FromInt(1000))
             volume_l == FDiv(FDiv(mass_g, mw[1]), molar_concentration_M)
         IN  FMul(volume_l, FromInt(1000))

\* non-negative inputs: whole numbers and halves up to MaxNum
Inputs == {Frac(n, d) : n \in 0..MaxNum, d \in {1, 2}}

\* positive concentrations at the bottom of the float range: the smallest
\* positive double, and the two on either side of the point where a division
\* by 1000.0 stops giving 0.0
TinyConcs == {Ulps(1), Ulps(500), Ulps(501)}

CalcInit ==
    /\ columns = {} /\ rows = {} /\ old_columns = {} /\ old_rows = {} /\ seq = 0
    /\ last = [op |-> "none"]
    /\ origin = << >>
    /\ inits = 0
    /\ assigned = {}
    /\ \E c \in Inputs \cup TinyConcs, v \in Inputs,
          mw \in {NULL} \cup {Some(x) : x \in Inputs} :
          calc = [pc |-> "input", conc_mM |-> c, vol_ml |-> v, mw |-> mw]

\* mass = calculate_mass(conc, vol, mw)
CalcMass ==
    /\ calc.pc = "input"
    /\ calc' = [pc |-> "mass", conc_mM |-> calc.conc_mM, vol_ml |-> calc.vol_ml,
                mw |-> calc.mw,
                mass_g |-> calculate_mass(calc.conc_mM, calc.vol_ml, calc.mw)]
    /\ UNCHANGED dbvars

\* volume = calculate_volume(mass, conc, mw), for the mass just computed
CalcVolume ==
    /\ calc.pc = "mass"
    /\ calc' = [pc |-> "volume", conc_mM |-> calc.conc_mM, vol_ml |-> calc.vol_ml,
                mw |-> calc.mw, mass_g |-> calc.mass_g,
                volume_ml |-> calculate_volume(calc.mass_g, calc.conc_mM, calc.mw)]
    /\ UNCHANGED dbvars

\* volume = calculate_volume(mass, conc, mw), for a mass weighed in
CalcVolumeOf(m) ==
    /\ calc.pc = "input"
    /\ calc' = [pc |-> "weighed", conc_mM |-> calc.conc_mM, vol_ml |-> calc.vol_ml,
                mw |-> calc.mw, mass_g |-> m,
                volume_ml |-> calculate_volume(m, calc.conc_mM, calc.mw)]
    /\ UNCHANGED dbvars

CalcNext ==
    \/ CalcMass
    \/ CalcVolume
    \/ \E m \in Inputs : CalcVolumeOf(m)

SpecCalc == CalcInit /\ [][CalcNext]_vars

----------------------------------------------------------------------------
(* Properties *)

store == <<columns, rows, old_columns, old_rows, seq>>

\* the row q holds exactly the fields of the call recorded in l
HoldsFields(q, l) ==
    /\ q.shortname = l.shortname
    /\ q.longname = l.p.longname
    /\ q.molecular_weight = l.p.molecular_weight
    /\ q.standard_concentration = l.p.standard_concentration
    /\ q.standard_volume = l.p.standard_volume

\* C1: once an init_db call has returned normally, every further init_db call
\* (wherever it falls among add, update and delete calls, completed or
\* interrupted) leaves the rows and the columns of compounds as they were.
C1_InitDbIdempotent ==
    [][ (inits >= 1 /\ last'.op = "init_db")
            => (rows' = rows /\ columns' = columns) ]_vars

\* a second init_db has returned on a store that holds rows
C1_Witness ==
    /\ inits >= 2
    /\ last.op = "init_db"
    /\ last.err = "None"
    /\ rows # {}

\* C2: after one or more successful init_db calls, a row that was in the store
\* before the first of them with standard_concentration c holds c * 1000, and
\* one that held NULL holds NULL, however many init_db calls followed.
C2_UnitMigrationOnce ==
    inits >= 1 =>
        \A r \in rows :
            r.id \in DOMAIN origin =>
                IF origin[r.id] = NULL
                THEN r.standard_concentration = NULL
                ELSE r.standard_concentration = Some(origin[r.id][1] * 1000)

\* two init_db calls have returned and a row that started at 5 holds 5000
C2_Witness ==
    /\ inits >= 2
    /\ \E r \in rows :
          /\ r.id \in DOMAIN origin
          /\ origin[r.id] = Some(5)
          /\ r.standard_concentration = Some(5000)

\* C3: init_db never reports success while rows of the legacy table are
\* missing from compounds: whenever init_db has returned normally, every row
\* left in compounds_old is present in compounds (same id, name as shortname).
C3_NoSilentLoss ==
    (last.op = "init_db" /\ last.err = "None") =>
        \A r \in old_rows :
            \E q \in rows : q.id = r.id /\ q.shortname = r.name

C5_AddCompound ==
    [][ (last'.op = "add_compound" /\ "shortname" \in columns) =>
            /\ ~last'.raised
            /\ IF \E r \in rows : r.shortname = last'.shortname
               THEN /\ last'.val = NULL
                    /\ last'.err = "IntegrityError"
                    /\ store' = store
               ELSE /\ last'.err = "None"
                    /\ \E q \in rows' :
                          /\ q \notin rows
                          /\ rows' = rows \cup {q}
                          /\ Cardinality(rows') = Cardinality(rows) + 1
                          /\ HoldsFields(q, last')
                          /\ last'.val = Some(q.id)
                    /\ <<columns, old_columns, old_rows>>' = <<columns, old_columns, old_rows>> ]_vars

\* an add_compound with a shortname already present has been refused
C5_Witness ==
    /\ last.op = "add_compound"
    /\ last.err = "IntegrityError"
    /\ \E r \in rows : r.shortname = last.shortname /\ ~HoldsFields(r, last)

\* C6: on an initialised table, update_compound with an unknown id returns
\* (0, None) and changes nothing; with a shortname held by another row it
\* returns (0, IntegrityError) and changes nothing; otherwise it replaces the
\* five fields of the row with that id, returns (1, None) and leaves every
\* other row as it was.
C6_UpdateCompound ==
    [][ (last'.op = "update_compound" /\ "shortname" \in columns) =>
            /\ ~last'.raised
            /\ IF ~\E r \in rows : r.id = last'.id
               THEN last'.val = 0 /\ last'.err = "None" /\ store' = store
               ELSE IF \E r \in rows : r.id # last'.id /\ r.shortname = last'.shortname
               THEN last'.val = 0 /\ last'.err = "IntegrityError" /\ store' = store
               ELSE /\ last'.val = 1 /\ last'.err = "None"
                    /\ Ids(rows') = Ids(rows)
                    /\ Cardinality(rows') = Cardinality(rows)
                    /\ \A q \in rows' :
                          IF q.id = last'.id
                          THEN HoldsFields(q, last')
                          ELSE q \in rows
                    /\ <<columns, old_columns, old_rows, seq>>' =
                           <<columns, old_columns, old_rows, seq>> ]_vars

\* an update_compound has been refused for a shortname another row holds
C6_Witness ==
    /\ last.op = "update_compound"
    /\ last.err = "IntegrityError"
    /\ \E r, q \in rows : r.id = last.id /\ q.id # r.id /\ q.shortname = last.shortname

\* C7: no two rows of compounds have the same shortname.
C7_ShortnameUnique ==
    "shortname" \in columns =>
        \A r, q \in rows : r # q => r.shortname # q.shortname

\* two rows are stored and a write that would have duplicated a shortname
\* has been made
C7_Witness ==
    /\ "shortname" \in columns
    /\ Cardinality(rows) = 2
    /\ last.op \in {"add_compound", "update_compound"}
    /\ last.err = "IntegrityError"

\* C9: delete_compound removes exactly the row with the given id and returns
\* (1, None); when no row has the id it returns (0, None) and changes nothing;
\* every other row, the columns and the id counter stay as they were.
C9_DeleteCompound ==
    [][ (last'.op = "delete_compound" /\ columns # {}) =>
            /\ ~last'.raised
            /\ last'.err = "None"
            /\ rows' = {r \in rows : r.id # last'.id}
            /\ last'.val = (IF \E r \in rows : r.id = last'.id THEN 1 ELSE 0)
            /\ <<columns, old_columns, old_rows, seq>>' =
                   <<columns, old_columns, old_rows, seq>> ]_vars

\* one of two rows has been deleted
C9_Witness ==
    /\ last.op = "delete_compound"
    /\ last.val = 1
    /\ Cardinality(rows) = 1
    /\ \A r \in rows : r.id # last.id

\* C8: on an initialised table, upsert_many with a record that fails (a
\* non-numeric molecular weight) applies no record, leaves the store as it
\* was and returns the failure; a batch without one inserts the new
\* shortnames and overwrites molecular_weight, standard_concentration and
\* standard_volume of the existing ones (the last record of a shortname wins),
\* keeping their id and longname, and touches no other row.
C8_UpsertAtomic ==
    [][ (last'.op = "upsert_many" /\ "shortname" \in columns) =>
            LET batch == last'.batch
                At(n) == {i \in 1..Len(batch) : batch[i].shortname = n}
            IN  IF \E i \in 1..Len(batch) : batch[i].molecular_weight \notin {"1", "2"}
                THEN last'.err # "None" /\ store' = store
                ELSE /\ last'.err = "None"
                     /\ \A n \in ShortNames :
                           IF At(n) = {}
                           THEN {r \in rows' : r.shortname = n} = {r \in rows : r.shortname = n}
                           ELSE LET rec == batch[Max(At(n))]
                                IN  /\ Cardinality({q \in rows' : q.shortname = n}) = 1
                                    /\ \A q \in rows' :
                                          q.shortname = n =>
                                              /\ q.molecular_weight =
                                                     (IF rec.molecular_weight = "1" THEN 1 ELSE 2)
                                              /\ q.standard_concentration = rec.standard_concentration
                                              /\ q.standard_volume = rec.standard_volume
                                              /\ \A r \in rows :
                                                    r.shortname = n =>
                                                        q.id = r.id /\ q.longname = r.longname ]_vars

\* a batch of a valid record for a new shortname followed by a record with a
\* non-numeric molecular weight has been refused
C8_Witness ==
    /\ last.op = "upsert_many"
    /\ "shortname" \in columns
    /\ last.err = "ValueError"
    /\ Len(last.batch) = 2
    /\ last.batch[1].molecular_weight # "x"
    /\ \A r \in rows : r.shortname # last.batch[1].shortname

C11_ZeroPolicy ==
    /\ calc.pc = "mass" =>
          /\ ~Raised(calc.mass_g)
          /\ IF calc.mw = NULL \/ calc.mw[1].n = 0
             THEN calc.mass_g.scale = "one" /\ calc.mass_g.n = 0
             ELSE calc.conc_mM.scale = "one" =>
                      /\ calc.mass_g.scale = "one"
                      /\ calc.mass_g.n * (calc.conc_mM.d * 1000 * calc.vol_ml.d * 1000
                                              * calc.mw[1].d)
                           = calc.conc_mM.n * calc.vol_ml.n * calc.mw[1].n * calc.mass_g.d
    /\ calc.pc \in {"volume", "weighed"} =>
          /\ ~Raised(calc.volume_ml)
          /\ IF calc.mw = NULL \/ calc.mw[1].n = 0 \/ calc.conc_mM.n = 0
             THEN calc.volume_ml.scale = "one" /\ calc.volume_ml.n = 0
             ELSE (calc.pc = "weighed" /\ calc.conc_mM.scale = "one") =>
                      /\ calc.volume_ml.scale = "one"
                      /\ calc.volume_ml.n * (calc.mass_g.d * calc.mw[1].n * calc.conc_mM.n)
                           = calc.mass_g.n * calc.mw[1].d * calc.conc_mM.d * 1000 * 1000
                               * calc.volume_ml.d

\* C12: a row keeps its id from insertion to deletion across init_db (the
\* legacy migration included), add_compound, update_compound and
\* delete_compound, and the id a successful add_compound returns is the id of
\* no row in the store and no id the store has assigned before.
C12_IdsNeverReused ==
    [][/\ (last'.op = "add_compound" /\ last'.err = "None") =>
              /\ last'.val[1] \notin Ids(rows)
              /\ last'.val[1] \notin assigned
              /\ Ids(rows') = Ids(rows) \cup {last'.val[1]}
       /\ (last'.op = "update_compound") => Ids(rows') = Ids(rows)
       /\ (last'.op = "delete_compound") => Ids(rows') = Ids(rows) \ {last'.id}
       /\ (last'.op = "init_db" /\ last'.err = "None") => Ids(rows') = Ids(rows)
      ]_vars

====
